---- MODULE Spec2Model ----
(***************************************************************************)
(* Multi-tracker resolution engine of ReleaseReport                        *)
(* (src/src/services/multi_tracker_service.py): one MultiTrackerService,   *)
(* its construction from the trackers configuration, and one call of       *)
(* get_task_details: the thread-pool fan-out, the as_completed collection  *)
(* loop, primary selection, field merge and deduplication.                 *)
(* Two more parts stand beside it, each with a specification of its own:   *)
(* the tracker adapters JiraService and OneCService (AdapterSpec) and the   *)
(* metadata differ MetadataService (DifferSpec).                            *)
(*                                                                         *)
(* Python values are modelled as follows.                                  *)
(*   dict with string keys, insertion ordered  : a sequence of records     *)
(*        [key, value] when the order is read, a function otherwise        *)
(*   task_data dict : a function over DataKeys; Absent = the key is not    *)
(*        in the dict                                                      *)
(*   Optional[X]    : a sequence of X of length 0 (None) or 1              *)
(***************************************************************************)
EXTENDS Integers, Sequences, FiniteSets, TLC

\* ------------------------------------------------------------------ bounds
\* Trackers declared in the "trackers" list of the configuration, in order.
DeclaredTrackers == <<"A", "B">>
\* Task ids a caller may ask for, and the longest request.
TaskIds == {"T1", "T2"}
MaxTasks == 3
\* Most elements a snapshot of the configuration holds.
MaxElements == 2
\* Priority numbers a tracker may be configured with.
Priorities == {0, 5}
\* merge_strategy values the configuration may hold ("newest" is not a
\* strategy the code names).
Strategies == {"priority", "first_found", "merge_all", "newest"}

\* ------------------------------------------------------- program constants
\* tracker_priorities.get(name, 999)
DefaultPriority == 999
\* trackers_config.get('timeout_seconds', 30)
DefaultTimeoutSeconds == 30
\* text[:50] in an element identifier, text[:100] in a change description
IdentityTextChars == 50
ChangeTextChars == 100

\* ------------------------------------------------------------ Python values
None == <<>>
Some(x) == <<x>>
Absent == "<absent>"
ErrNone == "None"
\* Keys of a task record, in the order the adapters build the dict.
DataKeys == <<"task_number", "owner">>
DataKeySet == {DataKeys[i] : i \in 1..Len(DataKeys)}
EmptyDict == [k \in DataKeySet |-> Absent]
\* Python truthiness of a string value ('' is falsy).
Truthy(v) == v # ""

Range(s) == {s[i] : i \in 1..Len(s)}
TrackerNameSet == Range(DeclaredTrackers)
\* The owner a tracker's backend stores when it stores one.
OwnerIn(t) == IF t = "A" THEN "ann" ELSE "bob"
\* TaskTrackerType of each declared tracker.
TypeOf(t) == IF t = "A" THEN "jira" ELSE "onec"

\* -------------------------------------------------------------- state
VARIABLES
    multi_tracker_config,  \* MultiTrackerConfig read by __init__
    tracker_services,      \* dict name -> service, as the sequence of its keys
    pc,                    \* "new", "idle", "collecting", "returned", "raised"
    task_numbers,          \* argument of the running get_task_details
    futures,               \* per tracker: the submitted unit of work
    collected,             \* trackers whose future as_completed has yielded
    all_results,           \* ordered dict task_number -> list of TaskSearchResult
    processed_results,     \* list of MultiTaskResult built from all_results
    output,                \* value returned by get_task_details
    late,                  \* trackers whose query was still running when
                           \* timeout_seconds had elapsed since the submit
    constructible,         \* trackers whose create_task_service call returned
    adapter_calls,         \* per tracker: the argument lists its adapter's
                           \* get_task_details was called with in this pass
    adapter,               \* one JiraService / OneCService and its last call
    differ                 \* one MetadataService and its last analysis

vars == <<multi_tracker_config, tracker_services, pc, task_numbers, futures,
          collected, all_results, processed_results, output, late,
          constructible, adapter_calls, adapter, differ>>

\* ---------------------------------------------------------- configuration
\* ConfigManager.get_multi_tracker_config over the "trackers" section: a
\* disabled section gives no trackers and deduplication off; otherwise the
\* enabled tracker entries are kept in declaration order.
GetMultiTrackerConfig(section) ==
    IF ~section.enabled
    THEN [trackers |-> <<>>, deduplication_enabled |-> FALSE,
          merge_strategy |-> "priority", timeout_seconds |-> DefaultTimeoutSeconds]
    ELSE [trackers |->
              LET on == SelectSeq(DeclaredTrackers,
                                  LAMBDA n : section.tracker_enabled[n])
              IN  [i \in 1..Len(on) |->
                      [name |-> on[i], type |-> TypeOf(on[i]), enabled |-> TRUE,
                       priority |-> section.priority[on[i]]]],
          deduplication_enabled |-> section.deduplication_enabled,
          merge_strategy |-> section.merge_strategy,
          timeout_seconds |-> DefaultTimeoutSeconds]

\* The "trackers" sections the configuration file may hold.
Sections ==
    [enabled : BOOLEAN,
     tracker_enabled : [TrackerNameSet -> BOOLEAN],
     priority : [TrackerNameSet -> Priorities],
     deduplication_enabled : BOOLEAN,
     merge_strategy : Strategies]

\* tracker_priorities = {c.name: c.priority for c in config.trackers};
\* tracker_priorities.get(name, 999)
PriorityOf(cfg, name) ==
    IF \E i \in 1..Len(cfg.trackers) : cfg.trackers[i].name = name
    THEN LET last == CHOOSE i \in 1..Len(cfg.trackers) :
                        /\ cfg.trackers[i].name = name
                        /\ \A j \in (i+1)..Len(cfg.trackers) :
                              cfg.trackers[j].name # name
         IN  cfg.trackers[last].priority
    ELSE DefaultPriority

\* --------------------------------------------------------------- adapters
\* The records a tracker's backend may hold for a task id.  A record always
\* carries its task_number; the owner of T1 may be missing, empty or set,
\* the record of any other task is complete.
RecordsOf(t, id) ==
    IF id = "T1"
    THEN {[task_number |-> id, owner |-> o] : o \in {Absent, "", OwnerIn(t)}}
    ELSE {[task_number |-> id, owner |-> OwnerIn(t)]}

\* What one adapter call (service.get_task_details) may do: raise, or return
\* a list of at most as many records as ids were asked for (the same id may
\* come twice, an id may be missing).

AdapterOutcomes(t, ids) ==
    {[raises |-> TRUE, message |-> "boom", task_details |-> <<>>]}
    \cup
    {[raises |-> FALSE, message |-> ErrNone, task_details |-> d] :
        d \in UNION {[1..n -> UNION {RecordsOf(t, id) : id \in ids}] :
                        n \in 0..Cardinality(ids)}}

\* Mutation of SearchTasksInTracker: a raising adapter leaves plain
\* not-found results, the error message is lost.
SearchTasksInTracker_DropsError(tracker_name, outcome, numbers) ==
    LET task_details == outcome.task_details
        found_task_numbers == {task_details[i].task_number :
                                  i \in 1..Len(task_details)}
        First(n) == task_details[CHOOSE i \in 1..Len(task_details) :
                        task_details[i].task_number = n]
    IN  [n \in Range(numbers) |->
            IF ~outcome.raises /\ n \in found_task_numbers
            THEN [tracker_name |-> tracker_name, tracker_type |-> TypeOf(tracker_name),
                  task_data |-> First(n), found |-> TRUE, error |-> ErrNone]
            ELSE [tracker_name |-> tracker_name, tracker_type |-> TypeOf(tracker_name),
                  task_data |-> EmptyDict, found |-> FALSE, error |-> ErrNone]]

\* ------------------------------------------------------ fan-out: the worker
\* _search_tasks_in_tracker: one TaskSearchResult per requested task number,
\* found with the first record of that number when the adapter returned one,
\* not found otherwise, and not found with the error for every number when
\* the adapter raised.  The result dict is read by key only.
SearchTasksInTracker(tracker_name, outcome, numbers) ==
    LET task_details == outcome.task_details
        found_task_numbers == {task_details[i].task_number :
                                  i \in 1..Len(task_details)}
        First(n) == task_details[CHOOSE i \in 1..Len(task_details) :
                        /\ task_details[i].task_number = n
                        /\ \A j \in 1..(i-1) : task_details[j].task_number # n]
    IN  [n \in Range(numbers) |->
            IF outcome.raises
            THEN [tracker_name |-> tracker_name, tracker_type |-> TypeOf(tracker_name),
                  task_data |-> EmptyDict, found |-> FALSE, error |-> outcome.message]
            ELSE IF n \in found_task_numbers
            THEN [tracker_name |-> tracker_name, tracker_type |-> TypeOf(tracker_name),
                  task_data |-> First(n), found |-> TRUE, error |-> ErrNone]
            ELSE [tracker_name |-> tracker_name, tracker_type |-> TypeOf(tracker_name),
                  task_data |-> EmptyDict, found |-> FALSE, error |-> ErrNone]]

\* Mutation of DictKeys: each number at the place of its last occurrence.
RECURSIVE DictKeys_LastOccurrence(_)
DictKeys_LastOccurrence(s) ==
    IF s = <<>> THEN <<>>
    ELSE LET back == DictKeys_LastOccurrence(Tail(s))
         IN  IF Head(s) \in Range(back) THEN back ELSE <<Head(s)>> \o back

\* Mutation of InitAllResults: one entry per element of the request list.
InitAllResults_KeepDuplicates(numbers) ==
    [i \in 1..Len(numbers) |-> [task_number |-> numbers[i], results |-> <<>>]]

\* ------------------------------------------------- fan-out: the collection
\* Keys of {task_number: [] for task_number in task_numbers}: each number
\* once, at the place of its first occurrence.
RECURSIVE DictKeys(_)
DictKeys(s) ==
    IF s = <<>> THEN <<>>
    ELSE LET front == DictKeys(SubSeq(s, 1, Len(s) - 1))
             x == s[Len(s)]
         IN  IF x \in Range(front) THEN front ELSE Append(front, x)

InitAllResults(numbers) ==
    LET keys == DictKeys(numbers)
    IN  [i \in 1..Len(keys) |-> [task_number |-> keys[i], results |-> <<>>]]

\* all_results[task_number].append(result)
AppendTo(results, number, r) ==
    [i \in 1..Len(results) |->
        IF results[i].task_number = number
        THEN [results[i] EXCEPT !.results = Append(@, r)]
        ELSE results[i]]

\* for task_number, result in tracker_results.items(): append
RECURSIVE AppendAll(_, _, _)
AppendAll(results, keys, tracker_results) ==
    IF keys = <<>> THEN results
    ELSE AppendAll(AppendTo(results, Head(keys), tracker_results[Head(keys)]),
                   Tail(keys), tracker_results)

\* except-branch of the collection loop: one synthesized error result per
\* element of task_numbers.
RECURSIVE AppendErrors(_, _, _, _)
AppendErrors(results, numbers, tracker_name, message) ==
    IF numbers = <<>> THEN results
    ELSE AppendErrors(
            AppendTo(results, Head(numbers),
                     [tracker_name |-> tracker_name, tracker_type |-> "none",
                      task_data |-> EmptyDict, found |-> FALSE, error |-> message]),
            Tail(numbers), tracker_name, message)

\* Mutation of CollectFuture: the results are appended once per element of
\* the request list instead of once per key of the worker's dict.
CollectFuture_PerRequest(results, numbers, tracker_name, future) ==
    IF future.raised
    THEN AppendErrors(results, numbers, tracker_name, future.exception)
    ELSE AppendAll(results, numbers, future.result)

\* Body of `for future in as_completed(...)` for one finished future.
CollectFuture(results, numbers, tracker_name, future) ==
    IF future.raised
    THEN AppendErrors(results, numbers, tracker_name, future.exception)
    ELSE AppendAll(results, DictKeys(numbers), future.result)

\* ------------------------------------------------------- primary selection
FoundResults(results) == SelectSeq(results, LAMBDA r : r.found)

\* min(found_results, key=priority): the first element of the list among
\* those with the smallest key.
MinByPriority(found_results, cfg) ==
    found_results[CHOOSE i \in 1..Len(found_results) :
        /\ \A j \in 1..Len(found_results) :
              PriorityOf(cfg, found_results[i].tracker_name)
                  <= PriorityOf(cfg, found_results[j].tracker_name)
        /\ \A j \in 1..(i-1) :
              PriorityOf(cfg, found_results[j].tracker_name)
                  > PriorityOf(cfg, found_results[i].tracker_name)]

\* Mutation of DeterminePrimaryResult: the strategy is not looked at, the
\* first found result of the list is taken.
DeterminePrimaryResult_FirstInList(results, cfg) ==
    IF FoundResults(results) = <<>> THEN None
    ELSE Some(FoundResults(results)[1])

\* Mutation of DeterminePrimaryResult: a strategy that is none of the three
\* known ones takes the last found result of the list.
DeterminePrimaryResult_UnknownTakesLast(results, cfg) ==
    LET found_results == FoundResults(results)
    IN  IF found_results = <<>> THEN None
        ELSE IF cfg.merge_strategy = "priority"
             THEN Some(MinByPriority(found_results, cfg))
        ELSE IF cfg.merge_strategy \in {"first_found", "merge_all"}
             THEN Some(found_results[1])
        ELSE Some(found_results[Len(found_results)])

\* _determine_primary_result: Optional[TaskSearchResult].
DeterminePrimaryResult(results, cfg) ==
    LET found_results == FoundResults(results)
    IN  IF found_results = <<>> THEN None
        ELSE IF cfg.merge_strategy = "priority"
             THEN Some(MinByPriority(found_results, cfg))
        ELSE IF cfg.merge_strategy = "first_found"
             THEN Some(found_results[1])
        ELSE Some(found_results[1])

\* ------------------------------------------------------------- field merge
\* sorted(found_results, key=priority): stable, so results of equal priority
\* keep their list order.
RECURSIVE SortedByPriority(_, _)
SortedByPriority(rs, cfg) ==
    IF rs = <<>> THEN <<>>
    ELSE LET x == rs[Len(rs)]
             front == SortedByPriority(SubSeq(rs, 1, Len(rs) - 1), cfg)
             \* x goes behind every element whose key is not larger
             k == Cardinality({i \in 1..Len(front) :
                      PriorityOf(cfg, front[i].tracker_name)
                          <= PriorityOf(cfg, x.tracker_name)})
         IN  SubSeq(front, 1, k) \o <<x>> \o SubSeq(front, k + 1, Len(front))

\* A dict returned to the caller: the task fields plus the two provenance
\* keys, None while the key is not in the dict.
PlainDict(task_data) ==
    [data |-> task_data, _trackers |-> None, _merged_fields |-> None]

\* Mutation of MergeItems: a key is written only while it is missing, so an
\* empty value already merged is kept.
RECURSIVE MergeItems_KeepsEmpty(_, _, _)
MergeItems_KeepsEmpty(merged, task_data, keys) ==
    IF keys = <<>> THEN merged
    ELSE LET key == Head(keys)
             value == task_data[key]
             next ==
                IF value # Absent /\ merged.data[key] = Absent
                THEN [data |-> [merged.data EXCEPT ![key] = value],
                      fields |-> Append(merged.fields, key)]
                ELSE merged
         IN  MergeItems_KeepsEmpty(next, task_data, Tail(keys))

\* One pass of `for key, value in result.task_data.items()`.
RECURSIVE MergeItems(_, _, _)
MergeItems(merged, task_data, keys) ==
    IF keys = <<>> THEN merged
    ELSE LET key == Head(keys)
             value == task_data[key]
             next ==
                IF value = Absent THEN merged
                ELSE IF merged.data[key] = Absent \/ ~Truthy(merged.data[key])
                THEN [data |-> [merged.data EXCEPT ![key] = value],
                      fields |-> IF key \in Range(merged.fields)
                                 THEN merged.fields
                                 ELSE Append(merged.fields, key)]
                ELSE merged
         IN  MergeItems(next, task_data, Tail(keys))

\* `for result in sorted_results`
RECURSIVE MergeResults(_, _)
MergeResults(merged, sorted_results) ==
    IF sorted_results = <<>> THEN merged
    ELSE MergeResults(MergeItems(merged, Head(sorted_results).task_data, DataKeys),
                      Tail(sorted_results))

\* Mutation of MergeTaskData: _trackers names only the tracker the merge
\* started from.
MergeTaskData_NamesFirstTrackerOnly(results, cfg) ==
    LET found_results == FoundResults(results)
    IN  IF found_results = <<>> THEN PlainDict(EmptyDict)
        ELSE IF Len(found_results) = 1 THEN PlainDict(found_results[1].task_data)
        ELSE LET sorted_results == SortedByPriority(found_results, cfg)
                 m == MergeResults([data |-> EmptyDict, fields |-> <<>>],
                                   sorted_results)
             IN  [data |-> m.data,
                  _trackers |-> Some(<<sorted_results[1].tracker_name>>),
                  _merged_fields |-> Some(m.fields)]

\* _merge_task_data
MergeTaskData(results, cfg) ==
    LET found_results == FoundResults(results)
    IN  IF found_results = <<>> THEN PlainDict(EmptyDict)
        ELSE IF Len(found_results) = 1 THEN PlainDict(found_results[1].task_data)
        ELSE LET m == MergeResults([data |-> EmptyDict, fields |-> <<>>],
                                   SortedByPriority(found_results, cfg))
             IN  [data |-> m.data,
                  _trackers |-> Some([i \in 1..Len(found_results) |->
                                        found_results[i].tracker_name]),
                  _merged_fields |-> Some(m.fields)]

\* bool(dict): a dict with no key is falsy.
DictTruthy(d) ==
    \/ \E k \in DataKeySet : d.data[k] # Absent
    \/ d._trackers # None
    \/ d._merged_fields # None

\* ------------------------------------------- what the merge writes into
\* Mutation of MergeTarget: the merge starts from the task_data dict of the
\* first result in priority order and writes into it.
MergeTarget_FirstResult(sorted_results) == Some(sorted_results[1].tracker_name)

\* The dict the loop of _merge_task_data writes into: merged_data = {} is a
\* new dict, the task_data of no result (None); otherwise the tracker whose
\* task_data it would be.
MergeTarget(sorted_results) == None

\* The results of one task as _merge_task_data leaves them: a write into
\* merged_data changes a result only if merged_data is that result's
\* task_data.  With one finder its task_data is returned and not written.
ResultsAfterMerge(results, cfg) ==
    LET found_results == FoundResults(results)
        sorted_results == SortedByPriority(found_results, cfg)
    IN  IF Len(found_results) <= 1 \/ MergeTarget(sorted_results) = None
        THEN results
        ELSE [j \in 1..Len(results) |->
                 IF results[j].tracker_name = MergeTarget(sorted_results)[1]
                 THEN [results[j] EXCEPT
                          !.task_data = MergeTaskData(results, cfg).data]
                 ELSE results[j]]

\* The matrix as _process_multi_tracker_results and _deduplicate_tasks leave
\* it: _determine_primary_result, _is_better_result and the task_map loop
\* only read the results, the merge is the one place that writes a dict.
ResultsAfterProcessing(results_by_task, cfg) ==
    [i \in 1..Len(results_by_task) |->
        [results_by_task[i] EXCEPT
            !.results = ResultsAfterMerge(results_by_task[i].results, cfg)]]

\* ------------------------------------------------ reconciliation per task
\* MultiTaskResult(...) with __post_init__ deriving found_in_trackers.
MultiTaskResult(task_number, results, primary_result, merged_data) ==
    [task_number |-> task_number, results |-> results,
     primary_result |-> primary_result, merged_data |-> merged_data,
     found_in_trackers |->
        LET f == FoundResults(results)
        IN  [i \in 1..Len(f) |-> f[i].tracker_name]]

\* Mutation of ProcessMultiTrackerResults: the merge is computed only when
\* more than one tracker found the task.
ProcessMultiTrackerResults_MergesOnlySeveral(results_by_task, cfg) ==
    [i \in 1..Len(results_by_task) |->
        LET results == results_by_task[i].results
            primary_result == DeterminePrimaryResult(results, cfg)
            merged_data == IF Len(FoundResults(results)) > 1
                           THEN Some(MergeTaskData(results, cfg)) ELSE None
        IN  MultiTaskResult(results_by_task[i].task_number, results,
                            primary_result, merged_data)]

\* _process_multi_tracker_results, over all_results.items() in dict order.
ProcessMultiTrackerResults(results_by_task, cfg) ==
    [i \in 1..Len(results_by_task) |->
        LET results == results_by_task[i].results
            primary_result == DeterminePrimaryResult(results, cfg)
            merged_data == IF primary_result # None
                           THEN Some(MergeTaskData(results, cfg)) ELSE None
        IN  MultiTaskResult(results_by_task[i].task_number, results,
                            primary_result, merged_data)]

\* ----------------------------------------------------------- deduplication
\* _is_better_result
IsBetterResult(new_result, existing_result, cfg) ==
    PriorityOf(cfg, new_result.primary_result[1].tracker_name)
        < PriorityOf(cfg, existing_result.primary_result[1].tracker_name)

\* The loop of _deduplicate_tasks over the first n results: task_map as an
\* ordered dict (a replaced value keeps the place of its key).
RECURSIVE TaskMap(_, _, _)
TaskMap(results, n, cfg) ==
    IF n = 0 THEN <<>>
    ELSE LET task_map == TaskMap(results, n - 1, cfg)
             result == results[n]
             at == {i \in 1..Len(task_map) : task_map[i].key = result.task_number}
         IN  IF result.primary_result = None THEN task_map
             ELSE IF at # {}
             THEN IF IsBetterResult(result, task_map[CHOOSE i \in at : TRUE].value, cfg)
                  THEN [i \in 1..Len(task_map) |->
                           IF i \in at THEN [key |-> result.task_number, value |-> result]
                           ELSE task_map[i]]
                  ELSE task_map
             ELSE Append(task_map, [key |-> result.task_number, value |-> result])

\* Mutation of DeduplicateTasks: the emitted dict is the task_data of the
\* selected primary result.
DeduplicateTasks_EmitsPrimary(results, cfg) ==
    LET task_map == TaskMap(results, Len(results), cfg)
    IN  [i \in 1..Len(task_map) |->
            PlainDict(task_map[i].value.primary_result[1].task_data)]

\* _deduplicate_tasks: result.merged_data or result.primary_result.task_data
DeduplicateTasks(results, cfg) ==
    LET task_map == TaskMap(results, Len(results), cfg)
    IN  [i \in 1..Len(task_map) |->
            LET result == task_map[i].value
            IN  IF result.merged_data # None /\ DictTruthy(result.merged_data[1])
                THEN result.merged_data[1]
                ELSE PlainDict(result.primary_result[1].task_data)]

\* The value get_task_details returns for the processed results: a list of
\* dicts with deduplication on, the MultiTaskResult list itself otherwise.
ReturnValue(processed, cfg) ==
    IF cfg.deduplication_enabled
    THEN [kind |-> "dict", items |-> DeduplicateTasks(processed, cfg)]
    ELSE [kind |-> "MultiTaskResult", items |-> processed]

\* ------------------------------------------------------------ construction
\* The names of the descriptors _initialize_trackers does not skip.
EnabledNames(cfg) ==
    {cfg.trackers[i].name : i \in {j \in 1..Len(cfg.trackers) :
                                       cfg.trackers[j].enabled}}

\* Mutation of InitializeTrackers: the first construction failure ends the
\* loop, the descriptors declared after it are never built.
InitializeTrackers_StopsAtFirstFailure(cfg, ok) ==
    LET on == SelectSeq(cfg.trackers, LAMBDA c : c.enabled)
        bad == {i \in 1..Len(on) : on[i].name \notin ok}
        n == IF bad = {} THEN Len(on)
             ELSE (CHOOSE i \in bad : \A j \in bad : i <= j) - 1
    IN  [i \in 1..n |-> on[i].name]

\* _initialize_trackers: every enabled tracker of the configuration whose
\* TaskServiceFactory.create_task_service call does not raise (those in ok),
\* in configuration order.
InitializeTrackers(cfg, ok) ==
    LET kept == SelectSeq(cfg.trackers, LAMBDA c : c.enabled /\ c.name \in ok)
    IN  [i \in 1..Len(kept) |-> kept[i].name]

\* No adapter is looked at on its own, no metadata analysis is running.
NoAdapter == [pc |-> "none"]
NoDiffer == [pc |-> "none"]

\* A Future: its state, the exception or result it holds, and whether the
\* adapter call made by its worker raised.
NoFuture == [state |-> "none", raised |-> FALSE, exception |-> ErrNone,
             result |-> <<>>, adapter_raised |-> FALSE]

\* The multi-tracker service before its constructor runs, for a "trackers"
\* section out of the given ones.
ServiceInit(sections) ==
    /\ \E section \in sections :
          multi_tracker_config = GetMultiTrackerConfig(section)
    /\ tracker_services = <<>>
    /\ pc = "new"
    /\ task_numbers = <<>>
    /\ futures = [t \in TrackerNameSet |-> NoFuture]
    /\ collected = {}
    /\ all_results = <<>>
    /\ processed_results = <<>>
    /\ output = [kind |-> "none", items |-> <<>>]
    /\ late = {}
    /\ constructible = {}
    /\ adapter_calls = [t \in TrackerNameSet |-> <<>>]

Init ==
    /\ ServiceInit(Sections)
    /\ adapter = NoAdapter
    /\ differ = NoDiffer

\* MultiTrackerService.__init__
Construct ==
    /\ pc = "new"
    /\ \E ok \in SUBSET EnabledNames(multi_tracker_config) :
          /\ constructible' = ok
          /\ tracker_services' = InitializeTrackers(multi_tracker_config, ok)
    /\ pc' = "idle"
    /\ UNCHANGED <<multi_tracker_config, task_numbers, futures, collected,
                   all_results, processed_results, output, late>>
    /\ UNCHANGED <<adapter_calls, adapter, differ>>

\* Lists of task numbers a caller may pass.
Requests == UNION {[1..n -> TaskIds] : n \in 0..MaxTasks}

\* get_task_details up to the end of the submit loop: an empty request
\* returns [] at once; ThreadPoolExecutor(max_workers=0) raises ValueError
\* when no tracker was constructed; otherwise one unit of work per tracker
\* is submitted.
GetTaskDetails ==
    /\ pc = "idle"
    /\ \E numbers \in Requests :
          /\ task_numbers' = numbers
          /\ IF numbers = <<>>
             THEN /\ pc' = "returned"
                  /\ output' = [kind |-> "dict", items |-> <<>>]
                  /\ UNCHANGED <<all_results, futures>>
             ELSE IF tracker_services = <<>>
             THEN /\ pc' = "raised"
                  /\ all_results' = InitAllResults(numbers)
                  /\ UNCHANGED <<output, futures>>
             ELSE /\ pc' = "collecting"
                  /\ all_results' = InitAllResults(numbers)
                  /\ futures' = [t \in TrackerNameSet |->
                                    IF t \in Range(tracker_services)
                                    THEN [NoFuture EXCEPT !.state = "running"]
                                    ELSE NoFuture]
                  /\ UNCHANGED output
    /\ UNCHANGED <<multi_tracker_config, tracker_services, collected,
                   processed_results, late>>
    /\ UNCHANGED <<constructible, adapter_calls, adapter, differ>>

\* Mutation of GetTaskDetailsCalls: the adapter is called once per task
\* number instead of once for the whole list.
GetTaskDetailsCalls_OnePerNumber(numbers) ==
    [i \in 1..Len(numbers) |-> <<numbers[i]>>]

\* The calls _search_tasks_in_tracker makes to its adapter:
\* service.get_task_details(task_numbers), once.
GetTaskDetailsCalls(numbers) == <<numbers>>

\* A pool thread runs _search_tasks_in_tracker to its end.  Every Exception
\* of the adapter is caught inside it, so the future holds a result.
Worker(t) ==
    /\ pc = "collecting"
    /\ futures[t].state = "running"
    /\ \E outcome \in AdapterOutcomes(t, Range(task_numbers)) :
          futures' = [futures EXCEPT ![t] =
                        [state |-> "finished", raised |-> FALSE,
                         exception |-> ErrNone,
                         result |-> SearchTasksInTracker(t, outcome, task_numbers),
                         adapter_raised |-> outcome.raises]]
    /\ adapter_calls' = [adapter_calls EXCEPT
                            ![t] = @ \o GetTaskDetailsCalls(task_numbers)]
    /\ UNCHANGED <<multi_tracker_config, tracker_services, pc, task_numbers,
                   collected, all_results, processed_results, output, late>>
    /\ UNCHANGED <<constructible, adapter, differ>>

\* timeout_seconds elapse while the collection loop is still waiting for a
\* query.  The code sets no timer: nothing in it reacts to this.
DeadlineElapses ==
    /\ pc = "collecting"
    /\ late = {}
    /\ \E t \in TrackerNameSet : futures[t].state = "running"
    /\ late' = {t \in TrackerNameSet : futures[t].state = "running"}
    /\ UNCHANGED <<multi_tracker_config, tracker_services, pc, task_numbers,
                   futures, collected, all_results, processed_results, output>>
    /\ UNCHANGED <<constructible, adapter_calls, adapter, differ>>

\* One iteration of `for future in as_completed(future_to_tracker)`.
Collect(t) ==
    /\ pc = "collecting"
    /\ futures[t].state = "finished"
    /\ t \notin collected
    /\ all_results' = CollectFuture(all_results, task_numbers, t, futures[t])
    /\ collected' = collected \cup {t}
    /\ UNCHANGED <<multi_tracker_config, tracker_services, pc, task_numbers,
                   futures, processed_results, output, late>>
    /\ UNCHANGED <<constructible, adapter_calls, adapter, differ>>

\* as_completed is exhausted: _search_tasks_parallel returns the matrix and
\* get_task_details processes, deduplicates and returns.
Return ==
    /\ pc = "collecting"
    /\ collected = Range(tracker_services)
    /\ processed_results' =
          ProcessMultiTrackerResults(all_results, multi_tracker_config)
    /\ output' = ReturnValue(processed_results', multi_tracker_config)
    /\ all_results' =
          ResultsAfterProcessing(all_results, multi_tracker_config)
    /\ pc' = "returned"
    /\ UNCHANGED <<multi_tracker_config, tracker_services, task_numbers, futures,
                   collected, late>>
    /\ UNCHANGED <<constructible, adapter_calls, adapter, differ>>

Next ==
    \/ Construct
    \/ GetTaskDetails
    \/ \E t \in TrackerNameSet : Worker(t)
    \/ \E t \in TrackerNameSet : Collect(t)
    \/ Return

Spec == Init /\ [][Next]_vars

\* The same program observed together with the passing of timeout_seconds.
NextTimed ==
    \/ Next
    \/ DeadlineElapses

TimedSpec == Init /\ [][NextTimed]_vars

\* ======================================================== tracker adapters
\* JiraService and OneCService looked at on their own: one call of
\* get_task_details against a backend whose answer per task id is fixed.
\* "ok": the request for the id answers with the task; "missing": it answers
\* with an error status (jira.issue and raise_for_status raise); "down": the
\* connection fails (the client raises).
BackendStates == {"ok", "missing", "down"}

\* Task numbers a caller may hand to an adapter: the ids and the empty string.
AdapterRequests == UNION {[1..n -> TaskIds \cup {""}] : n \in 0..MaxTasks}

\* valid_task_numbers = [task for task in task_numbers if task]
ValidTaskNumbers(numbers) == SelectSeq(numbers, Truthy)

\* The standard-format dict _process_task_data builds for a task.
TaskInfo(n) == [task_number |-> n, assignee |-> "Unassigned"]

\* The loop over the task numbers that JiraService._get_tasks_batch_from_jira
\* and OneCService._get_tasks_individually share: the request of an id that
\* raises (or gives no task) is printed and skipped, the others are appended.
PerTaskLoop(numbers, backend) ==
    LET answered == SelectSeq(numbers, LAMBDA n : backend[n] = "ok")
    IN  [i \in 1..Len(answered) |-> TaskInfo(answered[i])]

\* JiraService._get_tasks_batch_from_jira: the per-task loop; its outer
\* except returns [] and is never entered, the loop raises nothing.
GetTasksBatchFromJira(numbers, backend) == PerTaskLoop(numbers, backend)

\* OneCService._get_tasks_individually
GetTasksIndividually(numbers, backend) == PerTaskLoop(numbers, backend)

\* response.json() of the batch endpoint: the numbers of the tasks the
\* backend holds, in the order they were asked for.
BatchResponse(numbers, backend) ==
    SelectSeq(numbers, LAMBDA n : backend[n] = "ok")

\* OneCService._get_tasks_batch_from_1c: one POST for all numbers, each
\* task of the answer processed; when the POST raises, the fallback
\* _get_tasks_individually.
GetTasksBatchFrom1C(numbers, backend, batch) ==
    IF batch = "ok"
    THEN LET tasks_data == BatchResponse(numbers, backend)
         IN  [i \in 1..Len(tasks_data) |-> TaskInfo(tasks_data[i])]
    ELSE GetTasksIndividually(numbers, backend)

\* get_task_details of both adapters: [] for no valid number, else the batch
\* helper's list.  The helper never raises, so the except clause that
\* re-raises "Error fetching task details" is never entered.
AdapterGetTaskDetails(kind, numbers, backend, batch) ==
    LET valid_task_numbers == ValidTaskNumbers(numbers)
    IN  IF valid_task_numbers = <<>>
        THEN [raises |-> FALSE, task_details |-> <<>>]
        ELSE [raises |-> FALSE,
              task_details |->
                  IF kind = "jira"
                  THEN GetTasksBatchFromJira(valid_task_numbers, backend)
                  ELSE GetTasksBatchFrom1C(valid_task_numbers, backend, batch)]

\* A "trackers" section that is switched off.
NoTrackersSection ==
    [enabled |-> FALSE,
     tracker_enabled |-> [t \in TrackerNameSet |-> FALSE],
     priority |-> [t \in TrackerNameSet |-> 0],
     deduplication_enabled |-> FALSE,
     merge_strategy |-> "priority"]

\* An adapter of either kind, constructed, with the backend it talks to.
\* Jira has no batch endpoint.
AdapterInit ==
    /\ ServiceInit({NoTrackersSection})
    /\ differ = NoDiffer
    /\ \E kind \in {"jira", "onec"}, backend \in [TaskIds -> BackendStates],
          batch \in {"ok", "down"} :
          /\ kind = "jira" => batch = "down"
          /\ adapter = [pc |-> "idle", kind |-> kind, backend |-> backend,
                        batch |-> batch, task_numbers |-> <<>>,
                        result |-> [raises |-> FALSE, task_details |-> <<>>]]

\* One call of get_task_details(task_numbers) on an adapter of the kind.
CallAdapter(kind) ==
    /\ adapter.pc = "idle"
    /\ adapter.kind = kind
    /\ \E numbers \in AdapterRequests :
          adapter' = [adapter EXCEPT
                         !.pc = "done",
                         !.task_numbers = numbers,
                         !.result = AdapterGetTaskDetails(
                                        kind, numbers, adapter.backend,
                                        adapter.batch)]
    /\ UNCHANGED <<multi_tracker_config, tracker_services, pc, task_numbers,
                   futures, collected, all_results, processed_results, output,
                   late, constructible, adapter_calls, differ>>

\* JiraService.get_task_details
JiraGetTaskDetails == CallAdapter("jira")

\* OneCService.get_task_details
OneCGetTaskDetails == CallAdapter("onec")

AdapterNext ==
    \/ JiraGetTaskDetails
    \/ OneCGetTaskDetails

AdapterSpec == AdapterInit /\ [][AdapterNext]_vars

\* ======================================================= metadata differ
\* MetadataService over two snapshots of Configuration.xml.
\*
\* A document is kept as what the two extraction paths see of it: whether
\* ET.fromstring accepts it, and its elements in document order.  An element
\* has its local tag name (every element lives in the MDClasses namespace),
\* its attribute dict, the text before its first child and the number of
\* its children.
MDClasses == "{http://v8.1c.ru/8.3/MDClasses}"

\* The tags _parse_xml_elements keeps.
AllowedTags ==
    {MDClasses \o n : n \in {"Constant", "Catalog", "Document",
                             "InformationRegister", "AccumulationRegister"}}

\* Two texts of more than 50 characters that differ only after the 50th.
LongTextX == "Lorem ipsum dolor sit amet, consectetur adipiscing x"
LongTextY == "Lorem ipsum dolor sit amet, consectetur adipiscing y"

\* An element without attributes: element.attrib == {}
NoAttributes == [k \in {} |-> ""]

\* The elements a snapshot of the configuration may hold: three Catalog
\* elements of id C1 that differ in the type attribute or in the number of
\* children, one identified by its name, two identified by their text, and
\* one element of a tag outside the allow-list.
MetadataElements ==
    {[name |-> "Catalog", attrib |-> [id |-> "C1", type |-> "string"],
      text |-> "", children |-> 0],
     [name |-> "Catalog", attrib |-> [id |-> "C1", type |-> "string"],
      text |-> "", children |-> 1],
     [name |-> "Catalog", attrib |-> [id |-> "C1", type |-> ""],
      text |-> "", children |-> 0],
     [name |-> "Catalog", attrib |-> [name |-> "C1"],
      text |-> " s ", children |-> 0],
     [name |-> "Catalog", attrib |-> NoAttributes,
      text |-> LongTextX, children |-> 0],
     [name |-> "Catalog", attrib |-> NoAttributes,
      text |-> LongTextY, children |-> 0],
     [name |-> "Language", attrib |-> [id |-> "C1", type |-> "string"],
      text |-> "", children |-> 0]}

\* The contents a file may have: the empty string, a well-formed document
\* or a document ET.fromstring rejects, with at most MaxElements elements.
FileContents ==
    {[kind |-> "empty", elements |-> <<>>]} \cup
    [kind : {"xml", "broken"},
     elements : UNION {[1..n -> MetadataElements] : n \in 0..MaxElements}]

\* s[:n]
Slice(s, n) == IF Len(s) <= n THEN s ELSE SubSeq(s, 1, n)

\* s.strip(), for the space character.
RECURSIVE Strip(_)
Strip(s) ==
    IF s = "" THEN s
    ELSE IF SubSeq(s, 1, 1) = " " THEN Strip(SubSeq(s, 2, Len(s)))
    ELSE IF SubSeq(s, Len(s), Len(s)) = " "
         THEN Strip(SubSeq(s, 1, Len(s) - 1))
    ELSE s

\* attrs.get(key, '')
AttrGet(attrs, key) == IF key \in DOMAIN attrs THEN attrs[key] ELSE ""

\* element.tag as ElementTree gives it.
ElementTag(e) == MDClasses \o e.name

\* element.text.strip() if element.text else ''
ElementText(e) == IF Truthy(e.text) THEN Strip(e.text) ELSE ""

\* _get_element_path: ElementTree elements have no getparent, the loop
\* ends after the element's own tag.
GetElementPath(e) == ElementTag(e)

\* _get_element_identifier
GetElementIdentifier(e) ==
    IF "id" \in DOMAIN e.attrib
    THEN ElementTag(e) \o "@" \o e.attrib["id"]
    ELSE IF "name" \in DOMAIN e.attrib
    THEN ElementTag(e) \o "@" \o e.attrib["name"]
    ELSE IF "type" \in DOMAIN e.attrib
    THEN ElementTag(e) \o "@" \o e.attrib["type"]
    ELSE LET path == GetElementPath(e)
             text == ElementText(e)
         IN  IF Truthy(text)
             THEN path \o "#" \o Slice(text, IdentityTextChars)
             ELSE path

\* elements[element_id] = data on an insertion-ordered dict, kept as the
\* sequence of its values (each value holds its key in the field id): a new
\* key goes to the end, a known key keeps its place and takes the new value.
DictSet(elements, data) ==
    IF \E i \in 1..Len(elements) : elements[i].id = data.id
    THEN [i \in 1..Len(elements) |->
             IF elements[i].id = data.id THEN data ELSE elements[i]]
    ELSE Append(elements, data)

\* The keys of such a dict.
Ids(elements) == {elements[i].id : i \in 1..Len(elements)}

\* elements[element_id]
Lookup(elements, element_id) ==
    elements[CHOOSE i \in 1..Len(elements) : elements[i].id = element_id]

\* The dict _parse_xml_elements stores for an element of root.iter().
ElementData(e) ==
    [id |-> GetElementIdentifier(e),
     tag |-> ElementTag(e),
     attributes |-> e.attrib,
     text |-> ElementText(e),
     children_count |-> e.children,
     path |-> GetElementPath(e)]

\* The loop of _parse_xml_elements over the first n elements of root.iter():
\* an element of an allow-listed tag is stored under its identifier, a later
\* element of the same identifier overwriting an earlier one.
RECURSIVE IterElements(_, _)
IterElements(elements, n) ==
    IF n = 0 THEN <<>>
    ELSE LET before == IterElements(elements, n - 1)
         IN  IF ElementTag(elements[n]) \in AllowedTags
             THEN DictSet(before, ElementData(elements[n]))
             ELSE before

\* The markup of an element's children, which the pattern's (.*?) group
\* takes as part of the content.
RECURSIVE ChildMarkup(_)
ChildMarkup(n) == IF n = 0 THEN "" ELSE "<Item/>" \o ChildMarkup(n - 1)

\* The dict _parse_xml_with_regex stores for the i-th match (i from 0) of
\* tag_pattern: the bare tag name, the position as identifier unless an id
\* or name attribute is there, no children, the tag as path.
RegexData(e, i) ==
    [id |-> IF "id" \in DOMAIN e.attrib
            THEN e.name \o "@" \o e.attrib["id"]
            ELSE IF "name" \in DOMAIN e.attrib
            THEN e.name \o "@" \o e.attrib["name"]
            ELSE e.name \o "@" \o ToString(i),
     tag |-> e.name,
     attributes |-> e.attrib,
     text |-> Strip(e.text \o ChildMarkup(e.children)),
     children_count |-> 0,
     path |-> e.name]

\* Mutation of ParseXmlWithRegex: the degraded extraction finds nothing.
ParseXmlWithRegex_FindsNothing(elements) == <<>>

\* _parse_xml_with_regex over the matches of the pattern, every one stored
\* whatever its tag.
RECURSIVE ParseXmlWithRegex(_)
ParseXmlWithRegex(elements) ==
    IF elements = <<>> THEN <<>>
    ELSE DictSet(ParseXmlWithRegex(SubSeq(elements, 1, Len(elements) - 1)),
                 RegexData(elements[Len(elements)], Len(elements) - 1))

\* _parse_xml_elements: ET.fromstring and the loop; on ET.ParseError (any
\* text that is not a well-formed document, the empty string too) the
\* pattern-based extraction.
ParseXmlElements(xml_content) ==
    IF xml_content.kind = "xml"
    THEN IterElements(xml_content.elements, Len(xml_content.elements))
    ELSE ParseXmlWithRegex(xml_content.elements)

\* _get_element_changes: one description per attribute key whose value
\* (with '' for a missing key) differs, then one for a changed text.  The
\* keys are visited in the iteration order of a set, so the attribute
\* descriptions are kept as a set; a description is kept as what its
\* f-string interpolates.
GetElementChanges(old_data, new_data) ==
    LET old_attrs == old_data.attributes
        new_attrs == new_data.attributes
        keys == {k \in DOMAIN old_attrs \cup DOMAIN new_attrs :
                    AttrGet(old_attrs, k) # AttrGet(new_attrs, k)}
    IN  [attributes |->
            {[kind |-> IF k \notin DOMAIN old_attrs THEN "added attribute"
                       ELSE IF k \notin DOMAIN new_attrs
                       THEN "removed attribute"
                       ELSE "changed attribute",
              key |-> k,
              old |-> AttrGet(old_attrs, k),
              new |-> AttrGet(new_attrs, k)] : k \in keys},
         text |->
            IF old_data.text # new_data.text
            THEN <<[kind |-> "changed text",
                    old |-> Slice(old_data.text, ChangeTextChars),
                    new |-> Slice(new_data.text, ChangeTextChars)]>>
            ELSE <<>>]

\* The modified entries for the first n elements of new_elements.
RECURSIVE ModifiedUpTo(_, _, _)
ModifiedUpTo(old_elements, new_elements, n) ==
    IF n = 0 THEN <<>>
    ELSE LET before == ModifiedUpTo(old_elements, new_elements, n - 1)
             element_data == new_elements[n]
         IN  IF /\ element_data.id \in Ids(old_elements)
                /\ Lookup(old_elements, element_data.id) # element_data
             THEN Append(before,
                         [id |-> element_data.id,
                          old_data |-> Lookup(old_elements, element_data.id),
                          new_data |-> element_data,
                          changes |-> GetElementChanges(
                                          Lookup(old_elements, element_data.id),
                                          element_data)])
             ELSE before

\* Mutation of AnalyzeXmlChanges: an element that changed is listed as
\* added as well.
AnalyzeXmlChanges_ChangedIsAlsoAdded(old_content, new_content) ==
    LET old_elements == IF old_content.kind # "empty"
                        THEN ParseXmlElements(old_content) ELSE <<>>
        new_elements == IF new_content.kind # "empty"
                        THEN ParseXmlElements(new_content) ELSE <<>>
    IN  [added |-> SelectSeq(new_elements,
                       LAMBDA d : \/ d.id \notin Ids(old_elements)
                                  \/ Lookup(old_elements, d.id) # d),
         removed |-> SelectSeq(old_elements,
                         LAMBDA d : d.id \notin Ids(new_elements)),
         modified |-> ModifiedUpTo(old_elements, new_elements,
                                   Len(new_elements))]

\* _analyze_xml_changes: a content that is the empty string is not parsed.
AnalyzeXmlChanges(old_content, new_content) ==
    LET old_elements == IF old_content.kind # "empty"
                        THEN ParseXmlElements(old_content) ELSE <<>>
        new_elements == IF new_content.kind # "empty"
                        THEN ParseXmlElements(new_content) ELSE <<>>
    IN  [added |-> SelectSeq(new_elements,
                       LAMBDA d : d.id \notin Ids(old_elements)),
         removed |-> SelectSeq(old_elements,
                         LAMBDA d : d.id \notin Ids(new_elements)),
         modified |-> ModifiedUpTo(old_elements, new_elements,
                                   Len(new_elements))]

\* What project.files.get may give for the file at a commit: a content, or
\* an exception (the file is not there, or the request fails).
FetchFails == [kind |-> "fetch_error", elements |-> <<>>]
FileStates == FileContents \cup {FetchFails}

\* _get_file_content_at_commit: the content, or "" for any exception.
GetFileContentAtCommit(file) ==
    IF file.kind = "fetch_error"
    THEN [kind |-> "empty", elements |-> <<>>]
    ELSE file

\* What gitlab_service.get_file_changes_since may do: raise, report
\* has_changes False (no commits, or the file is not in the latest commit),
\* or report has_changes True with the two commits to compare.
ProviderOutcomes == {"raises", "no_changes", "has_changes"}

\* The dict analyze_metadata_changes returns when it does not analyse.
NoAnalysis(message) ==
    [raises |-> FALSE, has_changes |-> FALSE, message |-> message,
     added_metadata |-> <<>>, removed_metadata |-> <<>>,
     modified_metadata |-> <<>>, summary |-> None]

\* analyze_metadata_changes
AnalyzeMetadataChanges(file_changes, since_file, current_file) ==
    IF file_changes = "raises"
    THEN NoAnalysis("error")
    ELSE IF file_changes = "no_changes"
    THEN NoAnalysis("no changes")
    ELSE LET old_content == GetFileContentAtCommit(since_file)
             new_content == GetFileContentAtCommit(current_file)
             analysis_result == AnalyzeXmlChanges(old_content, new_content)
         IN  [raises |-> FALSE, has_changes |-> TRUE, message |-> "",
              added_metadata |-> analysis_result.added,
              removed_metadata |-> analysis_result.removed,
              modified_metadata |-> analysis_result.modified,
              summary |-> Some(
                  [total_added |-> Len(analysis_result.added),
                   total_removed |-> Len(analysis_result.removed),
                   total_modified |-> Len(analysis_result.modified)])]

\* A MetadataService and the repository it reads: what the provider answers
\* and the file at the two commits it names.
DifferInit ==
    /\ ServiceInit({NoTrackersSection})
    /\ adapter = NoAdapter
    /\ \E file_changes \in ProviderOutcomes,
          since_file \in FileStates, current_file \in FileStates :
          /\ file_changes # "has_changes" =>
                since_file = FetchFails /\ current_file = FetchFails
          /\ differ = [pc |-> "idle", file_changes |-> file_changes,
                       since_file |-> since_file,
                       current_file |-> current_file,
                       result |-> NoAnalysis("")]

\* One call of analyze_metadata_changes.
Analyze ==
    /\ differ.pc = "idle"
    /\ differ' = [differ EXCEPT
                     !.pc = "done",
                     !.result = AnalyzeMetadataChanges(
                                    differ.file_changes, differ.since_file,
                                    differ.current_file)]
    /\ UNCHANGED <<multi_tracker_config, tracker_services, pc, task_numbers,
                   futures, collected, all_results, processed_results, output,
                   late, constructible, adapter_calls, adapter>>

DifferNext == Analyze

DifferSpec == DifferInit /\ [][DifferNext]_vars

\* ================================================================ claims
Constructed == Range(tracker_services)
Requested == Range(task_numbers)
\* The list all_results holds for a task number.
ResultsOf(n) ==
    all_results[CHOOSE i \in 1..Len(all_results) : all_results[i].task_number = n].results
\* How many entries of a list of TaskSearchResult come from tracker t.
CountOf(results, t) ==
    Cardinality({j \in 1..Len(results) : results[j].tracker_name = t})
\* The fan-out matrix has been returned by _search_tasks_parallel.
MatrixReturned == pc = "returned" /\ task_numbers # <<>>
\* Some tracker found task number n.
FoundBySome(n) ==
    \E j \in 1..Len(ResultsOf(n)) : ResultsOf(n)[j].found

\* C1: the matrix _search_tasks_parallel returns has, for every requested
\* task id, exactly one dict entry, and in it exactly one TaskSearchResult of
\* every constructed tracker and nothing else, whatever the adapters did
\* (returned all, some or no records, or raised) and in whatever order their
\* futures completed.
C1_MatrixComplete ==
    MatrixReturned =>
        /\ \A n \in Requested :
              Cardinality({i \in 1..Len(all_results) :
                              all_results[i].task_number = n}) = 1
        /\ \A i \in 1..Len(all_results) :
              /\ all_results[i].task_number \in Requested
              /\ Len(all_results[i].results) = Cardinality(Constructed)
              /\ \A t \in Constructed : CountOf(all_results[i].results, t) = 1

\* C1 witness: a repeated id and a second id were requested, tracker A raised
\* for every id, tracker B returned a record for T1 only and completed first.
C1_Witness ==
    /\ MatrixReturned
    /\ task_numbers = <<"T1", "T2", "T1">>
    /\ Constructed = {"A", "B"}
    /\ futures["A"].adapter_raised
    /\ ResultsOf("T1")[1].tracker_name = "B"
    /\ ResultsOf("T1")[1].found
    /\ ~ResultsOf("T2")[1].found

\* The priority number the configuration gives tracker t.
ConfigPriority(t) ==
    multi_tracker_config.trackers[
        CHOOSE i \in 1..Len(multi_tracker_config.trackers) :
            multi_tracker_config.trackers[i].name = t].priority
\* The task number of the k-th entry of the returned list.
ItemTaskNumber(k) ==
    IF output.kind = "dict" THEN output.items[k].data["task_number"]
    ELSE output.items[k].task_number
\* Index of the first occurrence of n in the request.
FirstRequestedAt(n) ==
    CHOOSE i \in 1..Len(task_numbers) :
        /\ task_numbers[i] = n
        /\ \A j \in 1..(i-1) : task_numbers[j] # n

\* C2: when get_task_details has returned, every tracker whose query was
\* still running when timeout_seconds had elapsed contributes found = false
\* for every requested id.
C2_LateTrackerContributesNotFound ==
    pc = "returned" =>
        \A t \in late : \A n \in Requested :
            \A j \in 1..Len(ResultsOf(n)) :
                ResultsOf(n)[j].tracker_name = t => ~ResultsOf(n)[j].found

\* C3: under merge_strategy "priority", when the found results of a task come
\* from trackers of different priority numbers, the primary result is the
\* found result of the tracker with the lowest number, wherever it stands in
\* the list (whichever tracker completed first).
C3_PriorityPicksLowestNumber ==
    (pc = "returned" /\ multi_tracker_config.merge_strategy = "priority") =>
        \A i \in 1..Len(processed_results) :
            LET rs == processed_results[i].results
            IN  \A a \in 1..Len(rs) :
                    (/\ rs[a].found
                     /\ \A b \in 1..Len(rs) :
                           (b # a /\ rs[b].found) =>
                              ConfigPriority(rs[a].tracker_name)
                                  < ConfigPriority(rs[b].tracker_name))
                    => processed_results[i].primary_result = Some(rs[a])

\* C3 witness: B has the lower priority number, both trackers found T1, A's
\* result arrived first, and B's result is the primary one.
C3_Witness ==
    /\ pc = "returned"
    /\ multi_tracker_config.merge_strategy = "priority"
    /\ Constructed = {"A", "B"}
    /\ ConfigPriority("B") < ConfigPriority("A")
    /\ Len(processed_results) > 0
    /\ processed_results[1].results[1].tracker_name = "A"
    /\ processed_results[1].results[1].found
    /\ processed_results[1].results[2].found
    /\ processed_results[1].primary_result = Some(processed_results[1].results[2])

\* C4: under "priority" and "first_found" the primary result of a task is the
\* same for every order in which the task's results could have arrived.
C4_PrimaryIndependentOfOrder ==
    (/\ pc = "returned"
     /\ multi_tracker_config.merge_strategy \in {"priority", "first_found"}) =>
        \A i \in 1..Len(processed_results) :
            LET rs == processed_results[i].results
            IN  \A p \in Permutations(1..Len(rs)) :
                    DeterminePrimaryResult([k \in 1..Len(rs) |-> rs[p[k]]],
                                           multi_tracker_config)
                        = processed_results[i].primary_result

\* C5: for a task found by more than one tracker, every field of the merged
\* record for which some found result holds a non-empty value holds the value
\* of such a result whose tracker has the lowest priority number among them;
\* a field no found result fills stays empty or missing.
C5_MergeFirstNonEmpty ==
    pc = "returned" =>
        \A i \in 1..Len(processed_results) :
            LET f == SelectSeq(processed_results[i].results, LAMBDA r : r.found)
            IN  Len(f) > 1 =>
                  \A key \in DataKeySet :
                     LET holders == {j \in 1..Len(f) :
                                        f[j].task_data[key] \notin {Absent, ""}}
                         merged == processed_results[i].merged_data[1].data[key]
                     IN  IF holders = {} THEN merged \in {Absent, ""}
                         ELSE \E j \in holders :
                                 /\ merged = f[j].task_data[key]
                                 /\ \A k \in holders :
                                       ConfigPriority(f[j].tracker_name)
                                           <= ConfigPriority(f[k].tracker_name)

\* C5 witness: A (priority 0) found T1 with owner '', B (priority 5) found it
\* with owner 'bob', and the merged owner is 'bob'.
C5_Witness ==
    /\ pc = "returned"
    /\ Constructed = {"A", "B"}
    /\ ConfigPriority("A") = 0
    /\ ConfigPriority("B") = 5
    /\ task_numbers = <<"T1">>
    /\ futures["A"].result["T1"].found
    /\ futures["A"].result["T1"].task_data["owner"] = ""
    /\ futures["B"].result["T1"].found
    /\ futures["B"].result["T1"].task_data["owner"] = "bob"
    /\ processed_results[1].merged_data[1].data["owner"] = "bob"

\* C6: no entry of the list get_task_details returns belongs to a task number
\* that no tracker found.
C6_UnfoundYieldsNoEntry ==
    pc = "returned" =>
        \A k \in 1..Len(output.items) : FoundBySome(ItemTaskNumber(k))

\* C7: every requested task number that some tracker found is the task number
\* of exactly one entry of the returned list.
C7_FoundAppearsOnce ==
    pc = "returned" =>
        \A n \in Requested :
            FoundBySome(n) =>
                Cardinality({k \in 1..Len(output.items) : ItemTaskNumber(k) = n}) = 1

\* C7 witness: T1 was requested twice around T2, both were found, and the
\* list of dicts has two entries.
C7_Witness ==
    /\ pc = "returned"
    /\ task_numbers = <<"T1", "T2", "T1">>
    /\ FoundBySome("T1")
    /\ FoundBySome("T2")
    /\ output.kind = "dict"
    /\ Len(output.items) = 2

\* C8: the entries of the returned list stand in the order in which their
\* task numbers were first requested.
C8_OutputInRequestOrder ==
    pc = "returned" =>
        \A a, b \in 1..Len(output.items) :
            a < b => FirstRequestedAt(ItemTaskNumber(a))
                        < FirstRequestedAt(ItemTaskNumber(b))

\* C8 witness: T2 was requested first and again after T1; only B, the tracker
\* declared last, found T2 and it completed first; the list is T2, T1.
C8_Witness ==
    /\ pc = "returned"
    /\ task_numbers = <<"T2", "T1", "T2">>
    /\ Constructed = {"A", "B"}
    /\ ResultsOf("T2")[1].tracker_name = "B"
    /\ ResultsOf("T2")[1].found
    /\ ~ResultsOf("T2")[2].found
    /\ ResultsOf("T1")[2].found
    /\ Len(output.items) = 2
    /\ ItemTaskNumber(1) = "T2"
    /\ ItemTaskNumber(2) = "T1"

\* C9: a call with a non-empty request on a service without any constructed
\* tracker ends by returning an empty list.
C9_NoTrackersGivesEmptyList ==
    (/\ pc \in {"returned", "raised"}
     /\ tracker_services = <<>>
     /\ task_numbers # <<>>) =>
        (pc = "returned" /\ output.items = <<>>)

\* C10: when the adapter call of a tracker raised, the worker's future holds
\* no exception but, for every requested task number, a found = false result
\* of that tracker carrying the error message; the call does not end by
\* raising; and once collected, the matrix holds exactly these results for
\* that tracker next to the unchanged results of every other collected
\* tracker.
C10_AdapterFailureBecomesData ==
    \A t \in TrackerNameSet :
        (futures[t].state = "finished" /\ futures[t].adapter_raised) =>
            /\ ~futures[t].raised
            /\ pc # "raised"
            /\ \A n \in Requested :
                  /\ futures[t].result[n].tracker_name = t
                  /\ ~futures[t].result[n].found
                  /\ futures[t].result[n].error = "boom"
            /\ \A u \in collected : \A n \in Requested :
                  \A j \in 1..Len(ResultsOf(n)) :
                      ResultsOf(n)[j].tracker_name = u
                          => ResultsOf(n)[j] = futures[u].result[n]
            /\ \A n \in Requested :
                  t \in collected => CountOf(ResultsOf(n), t) = 1

\* C10 witness: A raised, B found T1; both are collected and the call has
\* returned with B's record.
C10_Witness ==
    /\ pc = "returned"
    /\ Constructed = {"A", "B"}
    /\ futures["A"].adapter_raised
    /\ task_numbers = <<"T1", "T2">>
    /\ futures["B"].result["T1"].found
    /\ ResultsOf("T1")[1].tracker_name = "A"
    /\ ResultsOf("T1")[1].error = "boom"
    /\ ResultsOf("T1")[2].found
    /\ output.kind = "dict"
    /\ Len(output.items) = 1

\* The enabled descriptors of the configuration, in declaration order,
\* whose name is in keep.
DeclaredIn(keep) ==
    LET on == SelectSeq(multi_tracker_config.trackers,
                        LAMBDA c : c.enabled /\ c.name \in keep)
    IN  [i \in 1..Len(on) |-> on[i].name]

\* C11: once the service is constructed, tracker_services holds exactly the
\* enabled descriptors whose adapter construction succeeded, in declaration
\* order, whichever constructions failed before or after them; the
\* constructor itself ends normally.
C11_ConstructionFailuresAreIndependent ==
    pc # "new" =>
        /\ tracker_services = DeclaredIn(constructible)
        /\ Range(tracker_services) = constructible
        /\ \A t \in EnabledNames(multi_tracker_config) \ constructible :
              t \notin Range(tracker_services)

\* The first declared tracker failed to construct, the second was built.
C11_Witness ==
    /\ pc = "idle"
    /\ Len(multi_tracker_config.trackers) = 2
    /\ constructible = {multi_tracker_config.trackers[2].name}
    /\ tracker_services = <<multi_tracker_config.trackers[2].name>>

\* The trackers the priority map has a key for.
ConfiguredNames ==
    {multi_tracker_config.trackers[i].name :
        i \in 1..Len(multi_tracker_config.trackers)}

\* The place of tracker t in the configuration's declaration order.
DeclaredAt(t) ==
    CHOOSE i \in 1..Len(multi_tracker_config.trackers) :
        /\ multi_tracker_config.trackers[i].name = t
        /\ \A j \in 1..(i-1) : multi_tracker_config.trackers[j].name # t

\* The trackers that found the task of a list of results.
FoundTrackers(rs) ==
    {rs[j].tracker_name : j \in {k \in 1..Len(rs) : rs[k].found}}

\* C17: under merge_strategy "priority" the primary result of a task comes
\* from the tracker that is declared first among the finding trackers of the
\* lowest priority number, whatever the completion order, and never from a
\* tracker without a key in the priority map while a configured tracker
\* found the task.
C17_PriorityTieGoesToFirstDeclared ==
    (pc = "returned" /\ multi_tracker_config.merge_strategy = "priority") =>
        \A i \in 1..Len(processed_results) :
            LET rs == processed_results[i].results
                configured == FoundTrackers(rs) \cap ConfiguredNames
                lowest == {t \in configured :
                             \A u \in configured :
                                 ConfigPriority(t) <= ConfigPriority(u)}
            IN  configured # {} =>
                    /\ processed_results[i].primary_result # None
                    /\ processed_results[i].primary_result[1].tracker_name
                           \in lowest
                    /\ \A u \in lowest :
                           DeclaredAt(processed_results[i].primary_result[1]
                                          .tracker_name) <= DeclaredAt(u)

\* C18: under merge_strategy "first_found" and "merge_all" the primary result
\* of a task comes from the tracker declared first among the trackers that
\* found it, not from the tracker whose query completed first.
C18_FirstFoundFollowsDeclarationOrder ==
    (/\ pc = "returned"
     /\ multi_tracker_config.merge_strategy \in {"first_found", "merge_all"}) =>
        \A i \in 1..Len(processed_results) :
            LET rs == processed_results[i].results
            IN  FoundTrackers(rs) # {} =>
                    /\ processed_results[i].primary_result # None
                    /\ \A u \in FoundTrackers(rs) :
                           DeclaredAt(processed_results[i].primary_result[1]
                                          .tracker_name) <= DeclaredAt(u)

\* The strategies _determine_primary_result has a branch of its own for,
\* counting the comment on its else branch.
KnownStrategies == {"priority", "first_found", "merge_all"}

\* C19: with a merge_strategy that is none of the known ones the call
\* returns with a processed result for every requested task, and the primary
\* result of every task is the one strategy "first_found" selects from the
\* same list of results.
C19_UnknownStrategyActsAsFirstFound ==
    (/\ pc = "returned"
     /\ task_numbers # <<>>
     /\ multi_tracker_config.merge_strategy \notin KnownStrategies) =>
        /\ Len(processed_results) = Cardinality(Requested)
        /\ \A i \in 1..Len(processed_results) :
              processed_results[i].primary_result =
                  DeterminePrimaryResult(
                      processed_results[i].results,
                      [multi_tracker_config EXCEPT
                          !.merge_strategy = "first_found"])

\* C19 witness: the strategy is "newest", both trackers found T1, and the
\* primary result is the one that arrived first.
C19_Witness ==
    /\ pc = "returned"
    /\ multi_tracker_config.merge_strategy = "newest"
    /\ Len(processed_results) > 0
    /\ Len(processed_results[1].results) = 2
    /\ processed_results[1].results[1].found
    /\ processed_results[1].results[2].found
    /\ processed_results[1].primary_result = Some(processed_results[1].results[1])

\* The valid task numbers of the adapter's call.
AdapterAsked == Range(ValidTaskNumbers(adapter.task_numbers))

\* Every request the adapter's call made to the backend failed to connect.
BackendUnreachable ==
    /\ AdapterAsked # {}
    /\ \A n \in AdapterAsked : adapter.backend[n] = "down"
    /\ adapter.kind = "onec" => adapter.batch = "down"

\* C20: a call of an adapter's get_task_details during which the backend
\* was unreachable for every request raises to its caller; a call in which
\* only some task ids failed returns the records of the others.
C20_TotalBackendFailureRaises ==
    adapter.pc = "done" =>
        /\ BackendUnreachable => adapter.result.raises
        /\ (AdapterAsked # {} /\ ~BackendUnreachable) =>
              /\ ~adapter.result.raises
              /\ \A n \in AdapterAsked :
                    adapter.backend[n] = "ok" =>
                        \E i \in 1..Len(adapter.result.task_details) :
                            adapter.result.task_details[i].task_number = n

\* ---------------------------------------------------- metadata differ claims
\* analyze_metadata_changes has compared two snapshots.
Analysed == differ.pc = "done" /\ differ.file_changes = "has_changes"
\* The two contents it compared.
OldContent == GetFileContentAtCommit(differ.since_file)
NewContent == GetFileContentAtCommit(differ.current_file)
\* The element maps of the two contents.
OldElements ==
    IF OldContent.kind = "empty" THEN <<>> ELSE ParseXmlElements(OldContent)
NewElements ==
    IF NewContent.kind = "empty" THEN <<>> ELSE ParseXmlElements(NewContent)
\* The identities listed in a list of element dicts or of modified entries.
ListedIds(list) == {list[i].id : i \in 1..Len(list)}
\* No identity is listed twice.
NoRepeat(list) == Cardinality(ListedIds(list)) = Len(list)

\* C12: when the two compared snapshots are the same content (well-formed,
\* malformed or empty), the change set has empty added, removed and modified
\* lists and has_changes = false.
C12_DiffOfSnapshotWithItselfIsEmpty ==
    (Analysed /\ OldContent = NewContent) =>
        /\ differ.result.added_metadata = <<>>
        /\ differ.result.removed_metadata = <<>>
        /\ differ.result.modified_metadata = <<>>
        /\ differ.result.has_changes = FALSE

\* C13: in every diff result added lists exactly the elements whose identity
\* is in the new element map only, removed exactly those whose identity is
\* in the old map only, modified only identities of both maps, each once; so
\* no identity is in two of the lists, and with an empty old snapshot every
\* new element is added and nothing is removed or modified.
C13_ClassificationByIdentity ==
    Analysed =>
        LET added == differ.result.added_metadata
            removed == differ.result.removed_metadata
            modified == differ.result.modified_metadata
            old_elements == OldElements
            new_elements == NewElements
            old_ids == Ids(old_elements)
            new_ids == Ids(new_elements)
        IN  /\ ListedIds(added) = new_ids \ old_ids
            /\ ListedIds(removed) = old_ids \ new_ids
            /\ ListedIds(modified) \subseteq old_ids \cap new_ids
            /\ NoRepeat(added) /\ NoRepeat(removed) /\ NoRepeat(modified)
            /\ \A i \in 1..Len(added) :
                  added[i] = Lookup(new_elements, added[i].id)
            /\ \A i \in 1..Len(removed) :
                  removed[i] = Lookup(old_elements, removed[i].id)
            /\ ListedIds(added) \cap ListedIds(removed) = {}
            /\ ListedIds(added) \cap ListedIds(modified) = {}
            /\ ListedIds(removed) \cap ListedIds(modified) = {}
            /\ OldContent.kind = "empty" =>
                  /\ Len(added) = Len(new_elements)
                  /\ removed = <<>>
                  /\ modified = <<>>

\* C13 witness: one element only in the old snapshot, one only in the new
\* one, and one of both that changed.
C13_Witness ==
    /\ Analysed
    /\ Len(differ.result.added_metadata) = 1
    /\ Len(differ.result.removed_metadata) = 1
    /\ Len(differ.result.modified_metadata) = 1

\* The local names of the allow-listed tags.
AllowedNames == {n \in {e.name : e \in MetadataElements} :
                    MDClasses \o n \in AllowedTags}

\* e and f are an allow-listed element with the same id attribute, and differ
\* in the value of exactly one other attribute and in nothing else.
SameButOneAttribute(e, f) ==
    /\ e.name = f.name /\ e.name \in AllowedNames
    /\ DOMAIN e.attrib = DOMAIN f.attrib
    /\ "id" \in DOMAIN e.attrib /\ e.attrib["id"] = f.attrib["id"]
    /\ e.text = f.text /\ e.children = f.children
    /\ Cardinality({k \in DOMAIN e.attrib : e.attrib[k] # f.attrib[k]}) = 1

\* C14: when each snapshot holds one allow-listed element, with the same id
\* attribute in both and the value of one other attribute different, the
\* diff has no added and no removed entry and exactly one modified entry,
\* keyed <tag>@<id>, with exactly one change description: a "changed
\* attribute" naming that attribute, its old and its new value.
C14_AttributeChangeIsOneModifiedEntry ==
    (/\ Analysed
     /\ Len(OldContent.elements) = 1 /\ Len(NewContent.elements) = 1
     /\ SameButOneAttribute(OldContent.elements[1], NewContent.elements[1])) =>
        LET e == OldContent.elements[1]
            f == NewContent.elements[1]
            modified == differ.result.modified_metadata
        IN  /\ differ.result.added_metadata = <<>>
            /\ differ.result.removed_metadata = <<>>
            /\ Len(modified) = 1
            /\ modified[1].id \in {ElementTag(e) \o "@" \o e.attrib["id"],
                                   e.name \o "@" \o e.attrib["id"]}
            /\ modified[1].changes.text = <<>>
            /\ modified[1].changes.attributes =
                  {[kind |-> "changed attribute", key |-> k,
                    old |-> e.attrib[k], new |-> f.attrib[k]] :
                      k \in {a \in DOMAIN e.attrib : e.attrib[a] # f.attrib[a]}}

\* C15: in the change set analyze_metadata_changes returns, has_changes is
\* true exactly when one of the three lists is not empty; when both
\* snapshots are empty or unparseable it is false and the lists are empty.
C15_HasChangesIffSomeListNonEmpty ==
    differ.pc = "done" =>
        /\ differ.result.has_changes <=>
              \/ differ.result.added_metadata # <<>>
              \/ differ.result.removed_metadata # <<>>
              \/ differ.result.modified_metadata # <<>>
        /\ (OldElements = <<>> /\ NewElements = <<>>) =>
              /\ differ.result.has_changes = FALSE
              /\ differ.result.added_metadata = <<>>
              /\ differ.result.removed_metadata = <<>>
              /\ differ.result.modified_metadata = <<>>

\* Every entry of the list was extracted by the pattern from an element of
\* the content.
ExtractedFrom(list, content) ==
    \A i \in 1..Len(list) :
        \E k \in 1..Len(content.elements) :
            /\ list[i].tag = content.elements[k].name
            /\ list[i].attributes = content.elements[k].attrib

\* C16: analyze_metadata_changes ends by returning a change set, whatever
\* the provider did (raised, failed to deliver a file) and whatever the
\* snapshots hold; a snapshot that is not well-formed goes through the
\* pattern-based extraction, so its elements still reach the diff: set
\* against a snapshot without elements they are all reported.
C16_MalformedSnapshotIsNeverFatal ==
    differ.pc = "done" =>
        /\ differ.result.raises = FALSE
        /\ differ.file_changes = "raises" =>
              /\ differ.result.has_changes = FALSE
              /\ differ.result.added_metadata = <<>>
              /\ differ.result.removed_metadata = <<>>
              /\ differ.result.modified_metadata = <<>>
        /\ (/\ Analysed
            /\ NewContent.kind = "broken" /\ NewContent.elements # <<>>
            /\ OldContent.elements = <<>>) =>
              /\ differ.result.added_metadata # <<>>
              /\ ExtractedFrom(differ.result.added_metadata, NewContent)
              /\ \A k \in 1..Len(NewContent.elements) :
                    \E i \in 1..Len(differ.result.added_metadata) :
                        differ.result.added_metadata[i].tag =
                            NewContent.elements[k].name
        /\ (/\ Analysed
            /\ OldContent.kind = "broken" /\ OldContent.elements # <<>>
            /\ NewContent.elements = <<>>) =>
              /\ differ.result.removed_metadata # <<>>
              /\ ExtractedFrom(differ.result.removed_metadata, OldContent)

\* C16 witness: the old file could not be fetched, the new one is not
\* well-formed and holds two elements, both reported as added.
C16_Witness ==
    /\ Analysed
    /\ differ.since_file = FetchFails
    /\ differ.current_file.kind = "broken"
    /\ Len(differ.current_file.elements) = 2
    /\ Len(differ.result.added_metadata) = 2
    /\ differ.result.raises = FALSE

\* ------------------------------------------------------ later pipeline claims
\* The units of work that are submitted and not finished.
InFlight == {t \in TrackerNameSet : futures[t].state = "running"}

\* C21: in a pass with a non-empty request one unit of work exists per
\* constructed tracker and none for any other; a unit that has finished has
\* called its adapter's get_task_details exactly once, with the whole list
\* of requested numbers, a unit still running has not called it; and the
\* units in flight are never more than the constructed trackers.
C21_OneBatchedQueryPerTracker ==
    /\ Cardinality(InFlight) <= Cardinality(Constructed)
    /\ pc \in {"collecting", "returned"} /\ task_numbers # <<>> =>
          \A t \in TrackerNameSet :
              /\ futures[t].state # "none" <=> t \in Constructed
              /\ futures[t].state = "finished" =>
                    adapter_calls[t] = <<task_numbers>>
              /\ futures[t].state # "finished" => adapter_calls[t] = <<>>

\* C21 witness: two trackers were constructed, three numbers were asked for
\* and the pass has returned after one call to each adapter.
C21_Witness ==
    /\ pc = "returned"
    /\ Constructed = {"A", "B"}
    /\ Len(task_numbers) = 3
    /\ adapter_calls["A"] = <<task_numbers>>
    /\ adapter_calls["B"] = <<task_numbers>>

\* The tracker whose value for the key is the one the merge of the found
\* results f ends with: the first of them in priority order that holds a
\* non-empty value, or the last that has the key when none does.  Only used
\* where some result of f has the key.
ContributorOf(f, key) ==
    LET sorted == SortedByPriority(f, multi_tracker_config)
        holders == {j \in 1..Len(sorted) : sorted[j].task_data[key] # Absent}
        filled == {j \in holders : Truthy(sorted[j].task_data[key])}
        j == IF filled # {}
             THEN CHOOSE a \in filled : \A b \in filled : a <= b
             ELSE CHOOSE a \in holders : \A b \in holders : a >= b
    IN  sorted[j].tracker_name

\* The trackers that contributed a value to the merge of f.
Contributors(f) ==
    {ContributorOf(f, key) :
        key \in {k \in DataKeySet :
                    \E j \in 1..Len(f) : f[j].task_data[k] # Absent}}

\* The found results of the i-th processed task.
FoundOf(i) == SelectSeq(processed_results[i].results, LAMBDA r : r.found)

C27_ProcessingLeavesInputsUnchanged ==
    [][(pc = "collecting" /\ pc' = "returned") => all_results' = all_results]_vars

\* C27 witness: with deduplication on, T1 was found by A with owner '' and by
\* B with owner 'bob'; the returned record has owner 'bob' and A's result
\* still has owner ''.
C27_Witness ==
    /\ C5_Witness
    /\ multi_tracker_config.deduplication_enabled
    /\ output.kind = "dict"
    /\ Len(output.items) = 1
    /\ output.items[1]._trackers # None
    /\ output.items[1].data["owner"] = "bob"
    /\ \E j \in 1..2 : /\ ResultsOf("T1")[j].tracker_name = "A"
                        /\ ResultsOf("T1")[j].task_data["owner"] = ""

\* C28: in every MultiTaskResult of the processed list, primary_result is
\* None exactly when no entry of results is found; otherwise it is one of the
\* found entries of results; found_in_trackers holds the tracker names of
\* the found entries and no other; merged_data is None exactly when
\* primary_result is.
C28_MultiTaskResultIsConsistent ==
    pc = "returned" =>
        \A i \in 1..Len(processed_results) :
            LET r == processed_results[i]
                found == {j \in 1..Len(r.results) : r.results[j].found}
            IN  /\ r.primary_result = None <=> found = {}
                /\ r.primary_result # None =>
                      \E j \in found : r.primary_result[1] = r.results[j]
                /\ Range(r.found_in_trackers) =
                      {r.results[j].tracker_name : j \in found}
                /\ Len(r.found_in_trackers) = Cardinality(found)
                /\ r.merged_data = None <=> r.primary_result = None

\* C28 witness: of two tasks, the first was found by one of two trackers and
\* has a primary result and merged data, the second by none and has neither.
C28_Witness ==
    /\ pc = "returned"
    /\ Len(processed_results) = 2
    /\ Len(processed_results[1].results) = 2
    /\ Len(processed_results[1].found_in_trackers) = 1
    /\ processed_results[1].primary_result # None
    /\ processed_results[1].merged_data # None
    /\ processed_results[2].found_in_trackers = <<>>
    /\ processed_results[2].primary_result = None
    /\ processed_results[2].merged_data = None

\* C29: with deduplication enabled, the list get_task_details returns is the
\* one it would return for the same results-by-task matrix under every other
\* merge_strategy, recognized or not.
C29_OutputIgnoresMergeStrategy ==
    (pc = "returned" /\ multi_tracker_config.deduplication_enabled) =>
        \A s \in Strategies :
            LET cfg == [multi_tracker_config EXCEPT !.merge_strategy = s]
            IN  ReturnValue(ProcessMultiTrackerResults(all_results, cfg), cfg)
                    = output

\* C29 witness: B completed before A, so "first_found" selects B's result and
\* "priority" selects A's; their owners differ, and the returned dict is the
\* field merge, which is not A's data.
C29_Witness ==
    /\ C5_Witness
    /\ multi_tracker_config.deduplication_enabled
    /\ ResultsOf("T1")[1].tracker_name = "B"
    /\ DeterminePrimaryResult(ResultsOf("T1"),
           [multi_tracker_config EXCEPT !.merge_strategy = "priority"])
         # DeterminePrimaryResult(ResultsOf("T1"),
               [multi_tracker_config EXCEPT !.merge_strategy = "first_found"])
    /\ Len(output.items) = 1
    /\ output.items[1].data["owner"] = "bob"

\* ---------------------------------------------- later metadata differ claims
\* C23: an identity of both element maps has a modified entry exactly when
\* the attribute dict or the text of its element differs between the two
\* maps; a difference in children_count or path alone gives no entry.
C23_ModifiedIffAttributesOrTextDiffer ==
    Analysed =>
        LET old_elements == OldElements
            new_elements == NewElements
            modified_ids == ListedIds(differ.result.modified_metadata)
        IN  \A id \in Ids(old_elements) \cap Ids(new_elements) :
                LET old_data == Lookup(old_elements, id)
                    new_data == Lookup(new_elements, id)
                IN  id \in modified_ids <=>
                        \/ old_data.attributes # new_data.attributes
                        \/ old_data.text # new_data.text

\* The description asked for attribute key k of a modified element.
AttributeDescription(old_attrs, new_attrs, k) ==
    [kind |-> IF k \notin DOMAIN old_attrs THEN "added attribute"
              ELSE IF k \notin DOMAIN new_attrs THEN "removed attribute"
              ELSE "changed attribute",
     key |-> k,
     old |-> AttrGet(old_attrs, k),
     new |-> AttrGet(new_attrs, k)]

\* C24: the changes of a modified entry hold one description for every key
\* of the union of the old and new attribute dicts that is in one dict only
\* or has different values in the two (the empty string is a value like any
\* other), and one text description exactly when the texts differ.
C24_OneDescriptionPerDifferingKey ==
    Analysed =>
        \A i \in 1..Len(differ.result.modified_metadata) :
            LET m == differ.result.modified_metadata[i]
                old_attrs == m.old_data.attributes
                new_attrs == m.new_data.attributes
                differing ==
                    {k \in DOMAIN old_attrs \cup DOMAIN new_attrs :
                        \/ k \notin DOMAIN old_attrs
                        \/ k \notin DOMAIN new_attrs
                        \/ old_attrs[k] # new_attrs[k]}
            IN  /\ m.changes.attributes =
                      {AttributeDescription(old_attrs, new_attrs, k) :
                          k \in differing}
                /\ Len(m.changes.text) =
                      IF m.old_data.text # m.new_data.text THEN 1 ELSE 0

\* The part of an identity key that follows the tag, by the precedence id,
\* name, type, text: "@" and the attribute value, or "#" and the first
\* IdentityTextChars characters of the stripped text, or nothing.
KeyAfterTag(e) ==
    IF "id" \in DOMAIN e.attrib THEN "@" \o e.attrib["id"]
    ELSE IF "name" \in DOMAIN e.attrib THEN "@" \o e.attrib["name"]
    ELSE IF "type" \in DOMAIN e.attrib THEN "@" \o e.attrib["type"]
    ELSE IF Strip(e.text) # ""
         THEN "#" \o Slice(Strip(e.text), IdentityTextChars)
    ELSE ""

\* The identity keys that follow the precedence for element e, with its tag
\* written with or without the namespace.
PrecedenceIdentities(e) ==
    {ElementTag(e) \o KeyAfterTag(e), e.name \o KeyAfterTag(e)}

\* The allow-listed elements of a content.
AllowListed(content) ==
    {content.elements[k] : k \in {j \in 1..Len(content.elements) :
                                     content.elements[j].name \in AllowedNames}}

\* C25: whichever path parsed a snapshot, each of its allow-listed elements
\* is in the element map under the key the precedence id, name, type, path
\* and text gives it, whatever its place in the document; an element of
\* both snapshots has the same key in both maps.
C25_IdentityIsTheSameOnBothPaths ==
    Analysed =>
        LET old_ids == Ids(OldElements)
            new_ids == Ids(NewElements)
        IN  /\ \A e \in AllowListed(OldContent) :
                  PrecedenceIdentities(e) \cap old_ids # {}
            /\ \A e \in AllowListed(NewContent) :
                  PrecedenceIdentities(e) \cap new_ids # {}
            /\ \A e \in AllowListed(OldContent) \cap AllowListed(NewContent) :
                  PrecedenceIdentities(e) \cap old_ids \cap new_ids # {}

\* The tag of every entry of the list is allow-listed, with or without the
\* namespace.
OnlyAllowListed(list) ==
    \A i \in 1..Len(list) :
        list[i].tag \in AllowedTags \cup AllowedNames

\* C26: whichever path parsed them, the two element maps hold only elements
\* of an allow-listed tag, and so do added, removed and both sides of every
\* modified entry.
C26_OnlyAllowListedKinds ==
    Analysed =>
        /\ OnlyAllowListed(OldElements)
        /\ OnlyAllowListed(NewElements)
        /\ OnlyAllowListed(differ.result.added_metadata)
        /\ OnlyAllowListed(differ.result.removed_metadata)
        /\ \A i \in 1..Len(differ.result.modified_metadata) :
              /\ differ.result.modified_metadata[i].old_data.tag
                    \in AllowedTags \cup AllowedNames
              /\ differ.result.modified_metadata[i].new_data.tag
                    \in AllowedTags \cup AllowedNames

\* The positions of the allow-listed elements of a content.
AllowListedAt(content) ==
    {k \in 1..Len(content.elements) :
        content.elements[k].name \in AllowedNames}

\* The element dict the parse path of the content derives for its k-th
\* element, the identity key in the field id.
DerivedData(content, k) ==
    IF content.kind = "xml" THEN ElementData(content.elements[k])
    ELSE RegexData(content.elements[k], k - 1)

\* The allow-listed elements at j and k derive the same identity key.
Collide(content, j, k) ==
    /\ j \in AllowListedAt(content) /\ k \in AllowListedAt(content)
    /\ DerivedData(content, j).id = DerivedData(content, k).id

\* The map of the content has one entry for the key of each allow-listed
\* element, holding the last element of that key, and no more entries than
\* the content has allow-listed elements.
LaterElementWins(content, elements) ==
    /\ Len(elements) <= Cardinality(AllowListedAt(content))
    /\ \A k \in AllowListedAt(content) :
          LET key == DerivedData(content, k).id
              last == CHOOSE j \in AllowListedAt(content) :
                          /\ Collide(content, j, k)
                          /\ \A i \in AllowListedAt(content) :
                                Collide(content, i, k) => i <= j
          IN  /\ Cardinality({i \in 1..Len(elements) :
                                 elements[i].id = key}) = 1
              /\ Lookup(elements, key) = DerivedData(content, last)

\* The two contents differ only in elements that a later element of the
\* same identity key follows, in the old and in the new content.
DifferOnlyInOverwritten(old_content, new_content) ==
    /\ old_content.kind = new_content.kind
    /\ Len(old_content.elements) = Len(new_content.elements)
    /\ old_content.elements # new_content.elements
    /\ \A k \in 1..Len(old_content.elements) :
          old_content.elements[k] # new_content.elements[k] =>
              \E j \in (k + 1)..Len(old_content.elements) :
                  /\ Collide(old_content, k, j)
                  /\ Collide(new_content, k, j)

\* C30: when allow-listed elements of one snapshot derive the same identity
\* key, the element map has a single entry for the key, holding the last of
\* them in document order; the map has no more entries than the snapshot
\* has allow-listed elements; and when the snapshots differ only in an
\* element that a later one of the same key overwrites, the diff reports
\* nothing.
C30_LaterCollidingElementWins ==
    Analysed =>
        /\ OldContent.kind # "empty" =>
              LaterElementWins(OldContent, OldElements)
        /\ NewContent.kind # "empty" =>
              LaterElementWins(NewContent, NewElements)
        /\ DifferOnlyInOverwritten(OldContent, NewContent) =>
              /\ differ.result.added_metadata = <<>>
              /\ differ.result.removed_metadata = <<>>
              /\ differ.result.modified_metadata = <<>>
====
